---- MODULE Spec2Model ----
(***************************************************************************)
(* Model of the contact deduplicator (src/dedupe.js): the field            *)
(* normalizers, the name-similarity metric, the exact-key aggregation,     *)
(* the inverted-index name-similarity pass and the final ranking.          *)
(*                                                                         *)
(* A JavaScript string is a sequence of one-character strings.  null is    *)
(* the reserved value NULL, which is no sequence of characters of the      *)
(* alphabet.  Array indices are 1-based here and 0-based in the source.    *)
(***************************************************************************)
EXTENDS Integers, Sequences, FiniteSets, TLC

(***************************************************************************)
(* Bounds of the model.                                                    *)
(***************************************************************************)
MaxRawLen == 4
MaxTokens == 2
MaxContacts == 3
MaxRaw == 3
MaxPhoneDigits == 13
MaxRows == 3

(***************************************************************************)
(* Strings.                                                                *)
(***************************************************************************)
NULL == <<"null">>

UpperChars == <<"A","B","C","D","E","F","G","H","I","J","K","L","M",
                "N","O","P","Q","R","S","T","U","V","W","X","Y","Z">>
LowerChars == <<"a","b","c","d","e","f","g","h","i","j","k","l","m",
                "n","o","p","q","r","s","t","u","v","w","x","y","z">>

Range(s) == {s[k] : k \in 1..Len(s)}

IsUpper(c) == c \in Range(UpperChars)
IsLower(c) == c \in Range(LowerChars)
\* [a-zA-Z]
IsLetter(c) == IsUpper(c) \/ IsLower(c)
\* \s, for the whitespace characters of the model's alphabet
IsSpace(c) == c \in {" ", "\t"}

\* String.prototype.toLowerCase, one character
LowerChar(c) ==
    IF IsUpper(c)
    THEN LowerChars[CHOOSE k \in 1..Len(UpperChars) : UpperChars[k] = c]
    ELSE c

toLowerCase(s) == [k \in 1..Len(s) |-> LowerChar(s[k])]

\* name.replace(/[^a-zA-Z\s]/g, ' ')
ReplaceNonLetters(s) ==
    [k \in 1..Len(s) |-> IF IsLetter(s[k]) \/ IsSpace(s[k]) THEN s[k] ELSE " "]

\* String.prototype.split(/\s+/): the pieces between maximal runs of
\* whitespace; a leading or trailing run leaves an empty piece, and the
\* empty string splits into one empty piece.
RECURSIVE SplitWs(_)
SplitWs(s) ==
    IF \A k \in 1..Len(s) : ~IsSpace(s[k])
    THEN <<s>>
    ELSE LET k == CHOOSE x \in 1..Len(s) :
                    IsSpace(s[x]) /\ \A y \in 1..(x-1) : ~IsSpace(s[y])
             rest == {x \in (k+1)..Len(s) : ~IsSpace(s[x])}
             m == IF rest = {} THEN Len(s) + 1
                  ELSE CHOOSE x \in rest : \A y \in rest : x <= y
         IN  <<SubSeq(s, 1, k-1)>> \o SplitWs(SubSeq(s, m, Len(s)))

\* Array.prototype.join(' ')
RECURSIVE JoinSpace(_)
JoinSpace(parts) ==
    IF parts = <<>> THEN <<>>
    ELSE IF Len(parts) = 1 THEN parts[1]
    ELSE parts[1] \o <<" ">> \o JoinSpace(Tail(parts))

\* String.prototype.trim
RECURSIVE Trim(_)
Trim(s) ==
    IF s = <<>> THEN s
    ELSE IF IsSpace(s[1]) THEN Trim(Tail(s))
    ELSE IF IsSpace(s[Len(s)]) THEN Trim(SubSeq(s, 1, Len(s) - 1))
    ELSE s

\* !x for a string or null
Falsy(x) == x = NULL \/ x = <<>>

\* part => part.length > 0
NonEmptyPart(part) == Len(part) > 0

normalizeName(name) ==
    IF Falsy(name) THEN NULL
    ELSE Trim(JoinSpace(SelectSeq(SplitWs(toLowerCase(ReplaceNonLetters(name))),
                                  NonEmptyPart)))

(***************************************************************************)
(* The name similarity metric.  A threshold t is held in hundredths        *)
(* (70 for 0.7), and a quotient p/q is compared with it as                 *)
(* 100*p >= t*q, which is exact where the source divides two small         *)
(* integers and compares with a decimal literal.                           *)
(***************************************************************************)
Min2(a, b) == IF a <= b THEN a ELSE b
Min3(a, b, c) == Min2(a, Min2(b, c))

\* One row j >= 1 of the matrix, filled left to right; row[k] is column k-1.
RECURSIVE FillRow(_, _, _, _)
FillRow(prevRow, str1, c2, row) ==
    IF Len(row) = Len(str1) + 1 THEN row
    ELSE LET i == Len(row)
             cost == IF str1[i] = c2 THEN 0 ELSE 1
             cell == Min3(prevRow[i + 1] + 1, row[i] + 1, prevRow[i] + cost)
         IN  FillRow(prevRow, str1, c2, Append(row, cell))

RECURSIVE FillMatrix(_, _, _, _)
FillMatrix(str1, str2, j, prevRow) ==
    IF j > Len(str2) THEN prevRow
    ELSE FillMatrix(str1, str2, j + 1, FillRow(prevRow, str1, str2[j], <<j>>))

levenshteinDistance(str1, str2) ==
    FillMatrix(str1, str2, 1, [k \in 1..(Len(str1) + 1) |-> k - 1])[Len(str1) + 1]

\* The quotient (longer.length - distance) / longer.length as <<p, q>>.
getLevenshteinSimilarity(str1, str2) ==
    LET longer == IF Len(str1) > Len(str2) THEN str1 ELSE str2
        shorter == IF Len(str1) > Len(str2) THEN str2 ELSE str1
    IN  IF Len(longer) = 0 THEN <<1, 1>>
        ELSE <<Len(longer) - levenshteinDistance(longer, shorter), Len(longer)>>

\* quotient >= pct/100
AtLeast(quotient, pct) == 100 * quotient[1] >= pct * quotient[2]

WordThreshold == 80
DefaultThreshold == 70

\* Mutant of Significant: words of two characters are kept.
SignificantFromTwo(w) == Len(w) > 1

\* w => w.length > 2
Significant(w) == Len(w) > 2

SignificantWords(name) == SelectSeq(SplitWs(name), Significant)

\* Mutant of MatchWord: no break, every close word2 is counted.
RECURSIVE MatchWordNoBreak(_, _)
MatchWordNoBreak(word1, words2) ==
    IF words2 = <<>> THEN 0
    ELSE (IF AtLeast(getLevenshteinSimilarity(word1, Head(words2)), WordThreshold)
          THEN 1 ELSE 0) + MatchWordNoBreak(word1, Tail(words2))

\* The inner loop over words2 for one word1: 1 at the first word2 that is
\* close enough (break), 0 when there is none.
RECURSIVE MatchWord(_, _)
MatchWord(word1, words2) ==
    IF words2 = <<>> THEN 0
    ELSE IF AtLeast(getLevenshteinSimilarity(word1, Head(words2)), WordThreshold)
         THEN 1
         ELSE MatchWord(word1, Tail(words2))

\* The outer loop over words1: matchingWords.
RECURSIVE CountMatchingWords(_, _)
CountMatchingWords(words1, words2) ==
    IF words1 = <<>> THEN 0
    ELSE MatchWord(Head(words1), words2) + CountMatchingWords(Tail(words1), words2)

\* Mutant of areNamesSimilar: the matching words are divided by the length
\* of the shorter list of words.
areNamesSimilarByOverlap(name1, name2, threshold) ==
    IF Falsy(name1) \/ Falsy(name2) THEN FALSE
    ELSE IF name1 = name2 THEN TRUE
    ELSE LET words1 == SignificantWords(name1)
             words2 == SignificantWords(name2)
         IN  IF Len(words1) = 0 \/ Len(words2) = 0 THEN FALSE
             ELSE AtLeast(<<CountMatchingWords(words1, words2),
                            Min2(Len(words1), Len(words2))>>, threshold)

areNamesSimilar(name1, name2, threshold) ==
    IF Falsy(name1) \/ Falsy(name2) THEN FALSE
    ELSE IF name1 = name2 THEN TRUE
    ELSE LET words1 == SignificantWords(name1)
             words2 == SignificantWords(name2)
         IN  IF Len(words1) = 0 \/ Len(words2) = 0 THEN FALSE
             ELSE AtLeast(<<2 * CountMatchingWords(words1, words2),
                            Len(words1) + Len(words2)>>, threshold)

(***************************************************************************)
(* State.                                                                  *)
(*  name, normalized, renormalized: a call of normalizeName on an input    *)
(*    and a second call on its result (UNSET before the call).             *)
(*  name1, name2, threshold, similar, simDone: a call of areNamesSimilar.  *)
(*  table: the rows of the in-memory contacts table, in insertion order.   *)
(*  headerFound: the flag of processLinkedInCSV.                           *)
(*  contacts .. pc: the locals of mergeSimilarContactsFocused.             *)
(*  absorbedBy, emittedFrom: history of the pass: for every input index    *)
(*    the index of the record it was folded into (0 when it was not), and  *)
(*    for every emitted record the input index it was copied from.         *)
(*  results: the value deduplicateContacts resolves with.                  *)
(*  run, order, firstGroups: the pass is run on the candidates in the      *)
(*    order the query returned them, which the query does not fix; a       *)
(*    second run on another order of the same candidates keeps the groups  *)
(*    of the first run and the input index each candidate had in it.       *)
(***************************************************************************)
VARIABLES name, normalized, renormalized,
          name1, name2, threshold, similar, simDone,
          table, headerFound,
          contacts, nameIndex, i, processed, merged, mergeCount,
          current, candidates, pc,
          absorbedBy, emittedFrom,
          results,
          run, order, firstGroups,
          phoneText, phoneResult,
          file, row, parsed, producedBy,
          csvFile, storeFile, exitCode, insertFailed,
          quadratic

normVars == <<name, normalized, renormalized>>
simVars == <<name1, name2, threshold, similar, simDone>>
tableVars == <<table, headerFound>>
passVars == <<contacts, nameIndex, i, processed, merged, mergeCount,
              current, candidates, pc, absorbedBy, emittedFrom,
              results, run, order, firstGroups>>
phoneVars == <<phoneText, phoneResult>>
fileVars == <<file, row, parsed, producedBy>>
sinkVars == <<csvFile, storeFile, exitCode, insertFailed>>
restVars == <<phoneVars, fileVars, sinkVars, quadratic>>
vars == <<name, normalized, renormalized,
          name1, name2, threshold, similar, simDone,
          table, headerFound,
          contacts, nameIndex, i, processed, merged, mergeCount,
          current, candidates, pc,
          absorbedBy, emittedFrom,
          results,
          run, order, firstGroups,
          phoneText, phoneResult,
          file, row, parsed, producedBy,
          csvFile, storeFile, exitCode, insertFailed,
          quadratic>>

UNSET == <<"unset">>

\* The parts of the state a specification does not use.
NormIdle == name = NULL /\ normalized = UNSET /\ renormalized = UNSET
SimIdle == name1 = NULL /\ name2 = NULL /\ threshold = DefaultThreshold
           /\ similar = FALSE /\ simDone = FALSE
PassIdle == /\ contacts = <<>> /\ nameIndex = <<>> /\ i = 1 /\ processed = {}
            /\ merged = <<>> /\ mergeCount = 0 /\ current = NULL
            /\ candidates = <<>> /\ pc = "idle"
            /\ absorbedBy = <<>> /\ emittedFrom = <<>>
            /\ results = <<>> /\ run = 1 /\ order = <<>> /\ firstGroups = {}
TableIdle == table = <<>> /\ headerFound = FALSE
PhoneIdle == phoneText = NULL /\ phoneResult = UNSET
FileIdle == file = <<>> /\ row = 1 /\ parsed = <<>> /\ producedBy = <<>>
\* A file that does not exist, and a file of the given rows; exitCode is -1
\* while the process runs.
NoFile == <<>>
FileOf(rows) == <<rows>>
\* mergeSimilarContacts not called yet, and what it returned.
NotCalled == <<>>
Returned(records) == <<records>>
SinkIdle == csvFile = NoFile /\ storeFile = NoFile /\ exitCode = -1
            /\ insertFailed = FALSE
RestIdle == PhoneIdle /\ FileIdle /\ SinkIdle /\ quadratic = NotCalled

(***************************************************************************)
(* normalizeName on raw text.                                              *)
(***************************************************************************)
RawAlphabet == {"a", "B", "7", ".", " ", "\t"}

SeqsUpTo(S, n) == UNION {[1..k -> S] : k \in 0..n}

RawStrings == SeqsUpTo(RawAlphabet, MaxRawLen)

InitNormalize ==
    /\ name \in RawStrings \cup {NULL}
    /\ normalized = UNSET /\ renormalized = UNSET
    /\ SimIdle /\ PassIdle /\ TableIdle
    /\ RestIdle

NormalizeName ==
    /\ normalized = UNSET
    /\ normalized' = normalizeName(name)
    /\ UNCHANGED <<name, renormalized, simVars, passVars, tableVars>>
    /\ UNCHANGED restVars

NormalizeAgain ==
    /\ normalized # UNSET /\ renormalized = UNSET
    /\ renormalized' = normalizeName(normalized)
    /\ UNCHANGED <<name, normalized, simVars, passVars, tableVars>>
    /\ UNCHANGED restVars

NextNormalize == NormalizeName \/ NormalizeAgain

SpecNormalize == InitNormalize /\ [][NextNormalize]_vars

(***************************************************************************)
(* areNamesSimilar on normalized names: the names of at most MaxTokens     *)
(* words of Vocabulary, and the two names of test_similarity.js.           *)
(***************************************************************************)
Vocabulary == { <<"c","g">>,
                <<"a","b","c","d","e">>,
                <<"a","b","c","d","x">>,
                <<"x","y","z">> }

TokenNames == {JoinSpace(ws) : ws \in SeqsUpTo(Vocabulary, MaxTokens)}

TestName1 == <<"a","b","h","i","j","i","t"," ","h","a","z","a","r","i">>
TestName2 == <<"c","g"," ","a","b","h","i","j","i","t"," ","h","a","z","a","r","i">>

Thresholds == {60, 70, 80, 95, 100}

InitSimilar ==
    /\ name1 \in TokenNames \cup {normalizeName(TestName1)}
    /\ name2 \in TokenNames \cup {normalizeName(TestName2)}
    /\ threshold \in Thresholds
    /\ similar = FALSE /\ simDone = FALSE
    /\ NormIdle /\ PassIdle /\ TableIdle
    /\ RestIdle

AreNamesSimilar ==
    /\ ~simDone
    /\ similar' = areNamesSimilar(name1, name2, threshold)
    /\ simDone' = TRUE
    /\ UNCHANGED <<name1, name2, threshold, normVars, passVars, tableVars>>
    /\ UNCHANGED restVars

NextSimilar == AreNamesSimilar

SpecSimilar == InitSimilar /\ [][NextSimilar]_vars

(***************************************************************************)
(* Candidate records: the rows the aggregation query returns.              *)
(***************************************************************************)
NA == <<"N","/","A">>

NameFields == {"linkedin_name", "phonebook_name", "email_name"}

Candidate(ln, pn, en, email, phone) ==
    [linkedin_name |-> ln, phonebook_name |-> pn, email_name |-> en,
     email |-> email, phone |-> phone]

\* a value that is neither null nor the empty string
Truthy(x) == ~Falsy(x)

getNameForComparison(contact) ==
    IF contact.linkedin_name # NA THEN contact.linkedin_name
    ELSE IF contact.phonebook_name # NA THEN contact.phonebook_name
    ELSE IF contact.email_name # NA THEN contact.email_name
    ELSE NULL

(***************************************************************************)
(* mergeSimilarContactsFocused: the index.                                 *)
(***************************************************************************)
\* The significant words of a contact's comparison name, in order.
IndexWords(contact) ==
    LET nm == getNameForComparison(contact)
    IN  IF Falsy(nm) THEN <<>>
        ELSE SignificantWords(normalizeName(nm))

\* How often word occurs in words.
RECURSIVE Occurrences(_, _)
Occurrences(word, words) ==
    IF words = <<>> THEN 0
    ELSE (IF Head(words) = word THEN 1 ELSE 0) + Occurrences(word, Tail(words))

\* The posting list of word over cs[k..]: one entry per occurrence of the
\* word in a contact's words, contacts in input order.
RECURSIVE PostingList(_, _, _)
PostingList(word, cs, k) ==
    IF k > Len(cs) THEN <<>>
    ELSE [x \in 1..Occurrences(word, IndexWords(cs[k])) |-> k]
         \o PostingList(word, cs, k + 1)

BuildNameIndex(cs) ==
    LET words == UNION {Range(IndexWords(cs[k])) : k \in 1..Len(cs)}
    IN  [w \in words |-> PostingList(w, cs, 1)]

(***************************************************************************)
(* mergeSimilarContactsFocused: one record of the outer loop.              *)
(***************************************************************************)
\* Set.prototype.add, the set kept in insertion order
RECURSIVE AddAll(_, _)
AddAll(set, entries) ==
    IF entries = <<>> THEN set
    ELSE AddAll(IF Head(entries) \in Range(set) THEN set
                ELSE Append(set, Head(entries)),
                Tail(entries))

\* The entries of the posting lists of words that the filter lets through.
RECURSIVE CollectCandidates(_, _, _, _, _)
CollectCandidates(index, words, idx, proc, set) ==
    IF words = <<>> THEN set
    ELSE LET list == IF Head(words) \in DOMAIN index THEN index[Head(words)]
                     ELSE <<>>
             Pass(e) == e # idx /\ e \notin proc
         IN  CollectCandidates(index, Tail(words), idx, proc,
                               AddAll(set, SelectSeq(list, Pass)))

\* Mutant of CandidateList: only the first candidate found is kept.
CandidateListFirstOnly(index, cur, idx, proc) ==
    LET all == CollectCandidates(index,
                   SignificantWords(normalizeName(getNameForComparison(cur))),
                   idx, proc, <<>>)
    IN  IF all = <<>> THEN <<>> ELSE <<all[1]>>

\* candidates, for the record cur at index idx
CandidateList(index, cur, idx, proc) ==
    CollectCandidates(index,
        SignificantWords(normalizeName(getNameForComparison(cur))),
        idx, proc, <<>>)

\* Mutant of Conflicting: the phone test is missing.
ConflictingEmailOnly(cur, candidate) ==
    Truthy(cur.email) /\ Truthy(candidate.email) /\ cur.email # candidate.email

\* The two tests that skip a candidate with a conflicting email or phone.
Conflicting(cur, candidate) ==
    \/ Truthy(cur.email) /\ Truthy(candidate.email) /\ cur.email # candidate.email
    \/ Truthy(cur.phone) /\ Truthy(candidate.phone) /\ cur.phone # candidate.phone

MergeThreshold == 70

\* The test that decides a merge, on the normalized name of the current
\* record as it was when the record was taken.
NamesMatch(currentNormalized, candidate) ==
    LET candidateName == getNameForComparison(candidate)
    IN  /\ Truthy(candidateName)
        /\ areNamesSimilar(currentNormalized, normalizeName(candidateName),
                           MergeThreshold)

\* The five assignments of a merge.
FoldIn(cur, candidate) ==
    [linkedin_name |-> IF candidate.linkedin_name # NA
                       THEN candidate.linkedin_name ELSE cur.linkedin_name,
     phonebook_name |-> IF candidate.phonebook_name # NA
                        THEN candidate.phonebook_name ELSE cur.phonebook_name,
     email_name |-> IF candidate.email_name # NA
                    THEN candidate.email_name ELSE cur.email_name,
     email |-> IF Falsy(cur.email) /\ Truthy(candidate.email)
               THEN candidate.email ELSE cur.email,
     phone |-> IF Falsy(cur.phone) /\ Truthy(candidate.phone)
               THEN candidate.phone ELSE cur.phone]

\* Mutant of AlreadyProcessed: the outer loop skips nothing.
NeverProcessed(proc, idx) == FALSE

\* if (processed.has(i)) continue
AlreadyProcessed(proc, idx) == idx \in proc

(***************************************************************************)
(* The ranking of deduplicateContacts.  localeCompare is modelled for the  *)
(* characters of CollationFirst and the ASCII letters: a first difference  *)
(* of letters or other characters regardless of case decides, and between  *)
(* strings equal up to case the first difference of case, lower case       *)
(* first.                                                                  *)
(***************************************************************************)
CollationFirst == <<"\t", " ", ".", "/", "7">>

IndexIn(seq, c) == CHOOSE k \in 1..Len(seq) : seq[k] = c

PrimaryWeight(c) ==
    IF IsLetter(c) THEN Len(CollationFirst) + IndexIn(LowerChars, LowerChar(c))
    ELSE IndexIn(CollationFirst, c)

\* -1, 0 or 1 on two sequences of numbers, the first difference deciding
RECURSIVE CompareWeights(_, _)
CompareWeights(a, b) ==
    IF a = <<>> /\ b = <<>> THEN 0
    ELSE IF a = <<>> THEN -1
    ELSE IF b = <<>> THEN 1
    ELSE IF Head(a) < Head(b) THEN -1
    ELSE IF Head(a) > Head(b) THEN 1
    ELSE CompareWeights(Tail(a), Tail(b))

localeCompare(a, b) ==
    LET pa == [k \in 1..Len(a) |-> PrimaryWeight(a[k])]
        pb == [k \in 1..Len(b) |-> PrimaryWeight(b[k])]
        ca == [k \in 1..Len(a) |-> IF IsUpper(a[k]) THEN 1 ELSE 0]
        cb == [k \in 1..Len(b) |-> IF IsUpper(b[k]) THEN 1 ELSE 0]
        primary == CompareWeights(pa, pb)
    IN  IF primary # 0 THEN primary ELSE CompareWeights(ca, cb)

\* aScore, bScore
Score(r) ==
    IF r.linkedin_name # NA THEN 1
    ELSE IF r.phonebook_name # NA THEN 2
    ELSE 3

\* aName, bName
ScoreName(r) ==
    IF r.linkedin_name # NA THEN r.linkedin_name
    ELSE IF r.phonebook_name # NA THEN r.phonebook_name
    ELSE r.email_name

\* Mutant of CompareRecords: the score is not compared.
CompareRecordsByNameOnly(a, b) ==
    localeCompare(IF Falsy(ScoreName(a)) THEN <<>> ELSE ScoreName(a),
                  IF Falsy(ScoreName(b)) THEN <<>> ELSE ScoreName(b))

\* The comparator handed to sort.
CompareRecords(a, b) ==
    IF Score(a) # Score(b) THEN Score(a) - Score(b)
    ELSE localeCompare(IF Falsy(ScoreName(a)) THEN <<>> ELSE ScoreName(a),
                       IF Falsy(ScoreName(b)) THEN <<>> ELSE ScoreName(b))

\* Array.prototype.sort is a stable sort: x goes behind the records that
\* do not compare greater than it.
RECURSIVE InsertSorted(_, _)
InsertSorted(x, sorted) ==
    IF sorted = <<>> THEN <<x>>
    ELSE IF CompareRecords(Head(sorted), x) <= 0
         THEN <<Head(sorted)>> \o InsertSorted(x, Tail(sorted))
         ELSE <<x>> \o sorted

RECURSIVE SortInto(_, _)
SortInto(sorted, rest) ==
    IF rest = <<>> THEN sorted
    ELSE SortInto(InsertSorted(Head(rest), sorted), Tail(rest))

SortRecords(records) == SortInto(<<>>, records)

(***************************************************************************)
(* The candidates the pass is run on: for three comparison names, of       *)
(* which the first and the last are both similar to the second and not to  *)
(* each other, candidates of the shapes the aggregation query returns.     *)
(***************************************************************************)
NameAD == <<"a","b","c"," ","d","e","f">>
NameADG == <<"a","b","c"," ","d","e","f"," ","g","h","i">>
NameDG == <<"d","e","f"," ","g","h","i">>

Email1 == <<"a","@","x",".","i","o">>
Email2 == <<"b","@","x",".","i","o">>
Phone1 == <<"9","8","7","6","5","4","3","2","1","0">>
Phone2 == <<"9","1","9","8","7","6","5","4","3","2","1","0">>

Pool ==
    {Candidate(n, NA, NA, NULL, NULL) : n \in {NameAD, NameADG, NameDG}}
    \cup {Candidate(NA, NameAD, NA, NULL, p) : p \in {Phone1, Phone2}}
    \cup {Candidate(NA, NameADG, NA, NULL, Phone1)}
    \cup {Candidate(NA, NA, NameAD, e, NULL) : e \in {Email1, Email2}}
    \cup {Candidate(NA, NA, NameADG, Email1, NULL)}
    \cup {Candidate(NameAD, NameADG, NA, Email1, Phone1),
          Candidate(NA, NA, NA, Email2, NULL)}

(***************************************************************************)
(* deduplicateContacts from the rows of the query on: the pass, then the   *)
(* sort.                                                                   *)
(***************************************************************************)
PassStart(cs) ==
    /\ contacts = cs
    /\ nameIndex = <<>> /\ i = 1 /\ processed = {}
    /\ merged = <<>> /\ mergeCount = 0 /\ current = NULL
    /\ candidates = <<>> /\ pc = "index"
    /\ absorbedBy = [k \in 1..Len(cs) |-> 0] /\ emittedFrom = <<>>
    /\ results = <<>>

Init ==
    /\ \E cs \in SeqsUpTo(Pool, MaxContacts) :
          /\ PassStart(cs)
          /\ order = [k \in 1..Len(cs) |-> k]
    /\ run = 1 /\ firstGroups = {}
    /\ NormIdle /\ SimIdle /\ TableIdle
    /\ RestIdle

\* nameIndex is built
BuildIndex ==
    /\ pc = "index"
    /\ nameIndex' = BuildNameIndex(contacts)
    /\ pc' = "outer"
    /\ UNCHANGED <<contacts, i, processed, merged, mergeCount, current,
                   candidates, absorbedBy, emittedFrom, results,
                   run, order, firstGroups, normVars, simVars, tableVars>>
    /\ UNCHANGED restVars

\* an index the outer loop passes over
OuterSkip ==
    /\ pc = "outer" /\ i <= Len(contacts)
    /\ AlreadyProcessed(processed, i)
    /\ i' = i + 1
    /\ UNCHANGED <<contacts, nameIndex, processed, merged, mergeCount, current,
                   candidates, pc, absorbedBy, emittedFrom, results,
                   run, order, firstGroups, normVars, simVars, tableVars>>
    /\ UNCHANGED restVars

\* the outer loop takes contacts[i]: a record without a name is emitted at
\* once, for any other its candidates are collected
TakeRecord ==
    /\ pc = "outer" /\ i <= Len(contacts)
    /\ ~AlreadyProcessed(processed, i)
    /\ processed' = processed \cup {i}
    /\ IF Falsy(getNameForComparison(contacts[i]))
       THEN /\ merged' = Append(merged, contacts[i])
            /\ emittedFrom' = Append(emittedFrom, i)
            /\ i' = i + 1
            /\ UNCHANGED <<current, candidates, pc>>
       ELSE /\ current' = contacts[i]
            /\ candidates' = CandidateList(nameIndex, contacts[i], i, processed')
            /\ pc' = "inner"
            /\ UNCHANGED <<merged, emittedFrom, i>>
    /\ UNCHANGED <<contacts, nameIndex, mergeCount, absorbedBy, results,
                   run, order, firstGroups, normVars, simVars, tableVars>>
    /\ UNCHANGED restVars

\* currentNormalized, computed when contacts[i] was taken
CurrentNormalized == normalizeName(getNameForComparison(contacts[i]))

\* one round of the loop over candidates
CheckCandidate ==
    /\ pc = "inner" /\ candidates # <<>>
    /\ LET j == Head(candidates)
       IN  IF /\ j \notin processed
              /\ ~Conflicting(current, contacts[j])
              /\ NamesMatch(CurrentNormalized, contacts[j])
           THEN /\ current' = FoldIn(current, contacts[j])
                /\ processed' = processed \cup {j}
                /\ mergeCount' = mergeCount + 1
                /\ absorbedBy' = [absorbedBy EXCEPT ![j] = i]
           ELSE UNCHANGED <<current, processed, mergeCount, absorbedBy>>
    /\ candidates' = Tail(candidates)
    /\ UNCHANGED <<contacts, nameIndex, i, merged, pc, emittedFrom, results,
                   run, order, firstGroups, normVars, simVars, tableVars>>
    /\ UNCHANGED restVars

\* merged.push(current) at the end of the outer loop's body
EmitRecord ==
    /\ pc = "inner" /\ candidates = <<>>
    /\ merged' = Append(merged, current)
    /\ emittedFrom' = Append(emittedFrom, i)
    /\ current' = NULL
    /\ i' = i + 1
    /\ pc' = "outer"
    /\ UNCHANGED <<contacts, nameIndex, processed, mergeCount, candidates,
                   absorbedBy, results, run, order, firstGroups,
                   normVars, simVars, tableVars>>
    /\ UNCHANGED restVars

\* the outer loop ends and the pass returns merged
ReturnMerged ==
    /\ pc = "outer" /\ i > Len(contacts)
    /\ pc' = "merged"
    /\ UNCHANGED <<contacts, nameIndex, i, processed, merged, mergeCount,
                   current, candidates, absorbedBy, emittedFrom, results,
                   run, order, firstGroups, normVars, simVars, tableVars>>
    /\ UNCHANGED restVars

\* mergedResults.sort(...) and resolve
SortResults ==
    /\ pc = "merged"
    /\ results' = SortRecords(merged)
    /\ pc' = "done"
    /\ UNCHANGED <<contacts, nameIndex, i, processed, merged, mergeCount,
                   current, candidates, absorbedBy, emittedFrom,
                   run, order, firstGroups, normVars, simVars, tableVars>>
    /\ UNCHANGED restVars

Next ==
    \/ BuildIndex
    \/ OuterSkip
    \/ TakeRecord
    \/ CheckCandidate
    \/ EmitRecord
    \/ ReturnMerged
    \/ SortResults

Spec == Init /\ [][Next]_vars

(***************************************************************************)
(* mergeSimilarContacts, the pass that scans all later candidates, on the  *)
(* candidates the focused pass was given.                                  *)
(***************************************************************************)
\* The loop over j from index j on: <<current, processed>> at its end.
RECURSIVE ScanLater(_, _, _, _)
ScanLater(cs, j, cur, proc) ==
    IF j > Len(cs) THEN <<cur, proc>>
    ELSE IF j \in proc \/ Conflicting(cur, cs[j])
         THEN ScanLater(cs, j + 1, cur, proc)
    ELSE LET currentName == getNameForComparison(cur)
             candidateName == getNameForComparison(cs[j])
         IN  IF /\ Truthy(currentName) /\ Truthy(candidateName)
                /\ areNamesSimilar(normalizeName(currentName),
                                   normalizeName(candidateName), DefaultThreshold)
             THEN ScanLater(cs, j + 1, FoldIn(cur, cs[j]), proc \cup {j})
             ELSE ScanLater(cs, j + 1, cur, proc)

\* The loop over i from index k on: merged at its end.
RECURSIVE ScanAll(_, _, _, _)
ScanAll(cs, k, proc, out) ==
    IF k > Len(cs) THEN out
    ELSE IF k \in proc THEN ScanAll(cs, k + 1, proc, out)
    ELSE LET done == ScanLater(cs, k + 1, cs[k], proc \cup {k})
         IN  ScanAll(cs, k + 1, done[2], Append(out, done[1]))

mergeSimilarContacts(cs) == ScanAll(cs, 1, {}, <<>>)

\* Names of one word: similar to each other, no word in common.
NameAbcde == <<"a","b","c","d","e">>
NameAbcdx == <<"a","b","c","d","x">>

QuadraticPool ==
    {Candidate(n, NA, NA, NULL, NULL) : n \in {NameAD, NameADG, NameDG, NameAbcde, NameAbcdx}}
    \cup {Candidate(NA, NameAD, NA, NULL, Phone1)}

InitQuadratic ==
    /\ \E cs \in SeqsUpTo(QuadraticPool, MaxContacts) :
          /\ PassStart(cs)
          /\ order = [k \in 1..Len(cs) |-> k]
    /\ run = 1 /\ firstGroups = {}
    /\ NormIdle /\ SimIdle /\ TableIdle
    /\ RestIdle

\* mergeSimilarContacts(contacts), called when the focused pass is over
MergeSimilarContacts ==
    /\ pc = "done" /\ quadratic = NotCalled
    /\ quadratic' = Returned(mergeSimilarContacts(contacts))
    /\ UNCHANGED <<normVars, simVars, tableVars, passVars,
                   phoneVars, fileVars, sinkVars>>

NextQuadratic == Next \/ MergeSimilarContacts

SpecQuadratic == InitQuadratic /\ [][NextQuadratic]_vars

(***************************************************************************)
(* The pass on two orders of the same candidates.  The query has no ORDER  *)
(* BY, so the order of its rows is not fixed; Reorder hands the pass the   *)
(* same candidates in another order and keeps the groups of the first run. *)
(***************************************************************************)
\* The input indices folded into the record emitted from index e.
GroupOf(e) == {e} \cup {k \in 1..Len(contacts) : absorbedBy[k] = e}

\* The groups of the emitted records, each candidate named by the index it
\* had in the first run.
OriginalGroups == {{order[k] : k \in GroupOf(e)} : e \in Range(emittedFrom)}

OrderPool ==
    << Candidate(NameAD, NA, NA, NULL, NULL),
       Candidate(NameADG, NA, NA, NULL, NULL),
       Candidate(NameDG, NA, NA, NULL, NULL),
       Candidate(NA, NameAD, NA, NULL, Phone1),
       Candidate(NA, NameAD, NA, NULL, Phone2),
       Candidate(NA, NA, NameAD, Email1, NULL) >>

\* The first run takes its candidates in the order of the pool; Reorder
\* then hands the same candidates over in any other order, so that every
\* order of every choice of candidates is compared with the first.
InitOrder ==
    /\ \E ks \in SeqsUpTo(1..Len(OrderPool), MaxContacts) :
          /\ \A k \in 1..(Len(ks) - 1) : ks[k] <= ks[k + 1]
          /\ PassStart([k \in 1..Len(ks) |-> OrderPool[ks[k]]])
          /\ order = [k \in 1..Len(ks) |-> k]
    /\ run = 1 /\ firstGroups = {}
    /\ NormIdle /\ SimIdle /\ TableIdle
    /\ RestIdle

Reorder ==
    /\ pc = "done" /\ run = 1
    /\ \E p \in Permutations(1..Len(contacts)) :
          /\ p # order
          /\ contacts' = [k \in 1..Len(contacts) |-> contacts[p[k]]]
          /\ order' = p
    /\ firstGroups' = OriginalGroups
    /\ run' = 2
    /\ nameIndex' = <<>> /\ i' = 1 /\ processed' = {}
    /\ merged' = <<>> /\ mergeCount' = 0 /\ current' = NULL
    /\ candidates' = <<>> /\ pc' = "index"
    /\ absorbedBy' = [k \in 1..Len(contacts) |-> 0] /\ emittedFrom' = <<>>
    /\ results' = <<>>
    /\ UNCHANGED <<normVars, simVars, tableVars>>
    /\ UNCHANGED restVars

NextOrder == Next \/ Reorder

SpecOrder == InitOrder /\ [][NextOrder]_vars

(***************************************************************************)
(* extractEmail and extractPhone.                                          *)
(***************************************************************************)
Digits == <<"0","1","2","3","4","5","6","7","8","9">>
IsDigit(c) == c \in Range(Digits)

\* [a-zA-Z0-9._%+-]
IsLocalChar(c) == IsLetter(c) \/ IsDigit(c) \/ c \in {".", "_", "%", "+", "-"}
\* [a-zA-Z0-9.-]
IsDomainChar(c) == IsLetter(c) \/ IsDigit(c) \/ c \in {".", "-"}

MaxOf(S) == CHOOSE x \in S : \A y \in S : y <= x
MinOf(S) == CHOOSE x \in S : \A y \in S : x <= y

\* The last index of the run of domain characters that starts at k (k - 1
\* when s[k] is none).
DomainRunEnd(s, k) ==
    MaxOf({e \in (k-1)..Len(s) : \A x \in k..e : IsDomainChar(s[x])})

\* The last index of the run of letters that starts at k.
LetterRunEnd(s, k) ==
    MaxOf({e \in (k-1)..Len(s) : \A x \in k..e : IsLetter(s[x])})

\* The first index of the run of local-part characters that ends at k.
LocalRunStart(s, k) ==
    MinOf({b \in 1..(k+1) : \A x \in b..k : IsLocalChar(s[x])})

\* The dots after the @ at q that the pattern can take as the dot before
\* the top-level domain: inside the run of domain characters, with at
\* least one domain character before and two letters behind.
DomainDots(s, q) ==
    {x \in (q+2)..DomainRunEnd(s, q + 1) :
        /\ s[x] = "."
        /\ x + 2 <= Len(s)
        /\ IsLetter(s[x+1]) /\ IsLetter(s[x+2])}

\* The @ signs at which the pattern matches.
MatchingAts(s) ==
    {q \in 2..Len(s) :
        /\ s[q] = "@"
        /\ IsLocalChar(s[q-1])
        /\ DomainDots(s, q) # {}}

\* match[1] of the first match: the leftmost match, each quantifier greedy.
FirstEmailMatch(s) ==
    LET q == MinOf(MatchingAts(s))
        dot == MaxOf(DomainDots(s, q))
    IN  SubSeq(s, LocalRunStart(s, q - 1), LetterRunEnd(s, dot + 1))

extractEmail(address) ==
    IF Falsy(address) THEN NULL
    ELSE IF MatchingAts(address) # {}
         THEN Trim(toLowerCase(FirstEmailMatch(address)))
    ELSE IF "@" \in Range(address) THEN Trim(toLowerCase(address))
    ELSE NULL

\* Mutant of extractPhone: the country code is never kept.
extractPhoneLastTen(phoneStr) ==
    IF Falsy(phoneStr) THEN NULL
    ELSE LET cleaned == SelectSeq(phoneStr, IsDigit)
         IN  IF Len(cleaned) >= 10
             THEN SubSeq(cleaned, Len(cleaned) - 9, Len(cleaned))
             ELSE NULL

extractPhone(phoneStr) ==
    IF Falsy(phoneStr) THEN NULL
    ELSE LET cleaned == SelectSeq(phoneStr, IsDigit)
         IN  IF Len(cleaned) >= 10
             THEN IF Len(cleaned) >= 12 /\ SubSeq(cleaned, 1, 2) = <<"9","1">>
                  THEN SubSeq(cleaned, 1, 12)
                  ELSE SubSeq(cleaned, Len(cleaned) - 9, Len(cleaned))
             ELSE NULL

(***************************************************************************)
(* extractPhone on phone cells: strings of up to MaxPhoneDigits digits,    *)
(* bare or written with a plus sign, dashes, parentheses and spaces, and   *)
(* the cells of the examples.                                              *)
(***************************************************************************)
PhoneDigitStrings == SeqsUpTo({"9", "1"}, MaxPhoneDigits)

\* +dd-ddddd..., as an international number is written
International(d) ==
    IF Len(d) < 2 THEN <<"+">> \o d
    ELSE <<"+">> \o SubSeq(d, 1, 2) \o <<"-">> \o SubSeq(d, 3, Len(d))

\* (ddd) ddd..., as a national number is written
National(d) ==
    IF Len(d) < 3 THEN <<"(">> \o d \o <<")">>
    ELSE <<"(">> \o SubSeq(d, 1, 3) \o <<")", " ">> \o SubSeq(d, 4, Len(d))

PhoneExamples ==
    { <<"+","9","1","-","9","8","7","6","5","-","4","3","2","1","0">>,
      <<"(","2","1","2",")"," ","5","5","5","-","0","1","0","0">>,
      <<"1","2","3","4","5">> }

PhoneTexts ==
    {NULL} \cup PhoneExamples \cup PhoneDigitStrings
    \cup {International(d) : d \in PhoneDigitStrings}
    \cup {National(d) : d \in PhoneDigitStrings}

InitPhone ==
    /\ phoneText \in PhoneTexts
    /\ phoneResult = UNSET
    /\ NormIdle /\ SimIdle /\ PassIdle /\ TableIdle
    /\ FileIdle /\ SinkIdle /\ quadratic = NotCalled

ExtractPhone ==
    /\ phoneResult = UNSET
    /\ phoneResult' = extractPhone(phoneText)
    /\ UNCHANGED <<phoneText, normVars, simVars, passVars, tableVars,
                   fileVars, sinkVars, quadratic>>

NextPhone == ExtractPhone

SpecPhone == InitPhone /\ [][NextPhone]_vars

(***************************************************************************)
(* The source adapters, one row (or one name and address pair) each, and   *)
(* insertContacts.  A contact is the row the insert stores.                *)
(***************************************************************************)
RawContact(source, nm, email, phone) ==
    [source |-> source, original_name |-> Trim(nm),
     normalized_name |-> normalizeName(nm), email |-> email, phone |-> phone]

\* Mutant of processNameAndAddress: a pair whose address holds no email is
\* not dropped.
processNameAndAddressUnchecked(source, nm, address) ==
    IF Truthy(nm) /\ Truthy(address)
    THEN <<RawContact(source, nm, extractEmail(address), NULL)>>
    ELSE <<>>

\* The contacts one name and address pair of a mail row contributes.
processNameAndAddress(source, nm, address) ==
    IF Truthy(nm) /\ Truthy(address)
    THEN LET email == extractEmail(address)
         IN  IF Truthy(email) THEN <<RawContact(source, nm, email, NULL)>>
             ELSE <<>>
    ELSE <<>>

\* a || b || ... over the cells of a row
RECURSIVE FirstTruthy(_)
FirstTruthy(cells) ==
    IF cells = <<>> THEN NULL
    ELSE IF Len(cells) = 1 \/ Truthy(Head(cells)) THEN Head(cells)
    ELSE FirstTruthy(Tail(cells))

OrEmpty(cell) == IF Falsy(cell) THEN <<>> ELSE cell

\* The contacts a data row of the connections export contributes.
LinkedInContacts(record) ==
    LET firstName == OrEmpty(record[1])
        lastName == OrEmpty(record[2])
        email == IF Truthy(record[4]) THEN extractEmail(record[4]) ELSE NULL
        fullName == Trim(firstName \o <<" ">> \o lastName)
    IN  IF Truthy(fullName) THEN <<RawContact("linkedin", fullName, email, NULL)>>
        ELSE <<>>

\* The contacts a row of the phone book contributes: emails are the three
\* e-mail cells, phones the five phone cells, in the order of the source.
PhonebookContacts(fullNameCell, emails, phones) ==
    LET fullName == OrEmpty(fullNameCell)
        email == extractEmail(FirstTruthy(emails))
        phone == extractPhone(FirstTruthy(phones))
    IN  IF Truthy(fullName) /\ (Truthy(email) \/ Truthy(phone))
        THEN <<RawContact("phonebook", fullName, email, phone)>>
        ELSE <<>>

(***************************************************************************)
(* The aggregation query of deduplicateContacts.                           *)
(***************************************************************************)
\* The characters of the model in code point order.
CodePoints == <<"\t", " ", "%", "+", "-", ".", "/">> \o Digits
              \o <<"<", ">", "@">> \o UpperChars \o <<"_">> \o LowerChars

CodePoint(c) == IndexIn(CodePoints, c)

\* BINARY collation: -1, 0 or 1
BinaryCompare(a, b) ==
    CompareWeights([k \in 1..Len(a) |-> CodePoint(a[k])],
                   [k \in 1..Len(b) |-> CodePoint(b[k])])

\* TRIM(x): spaces only
RECURSIVE SqlTrim(_)
SqlTrim(x) ==
    IF x = NULL \/ x = <<>> THEN x
    ELSE IF x[1] = " " THEN SqlTrim(Tail(x))
    ELSE IF x[Len(x)] = " " THEN SqlTrim(SubSeq(x, 1, Len(x) - 1))
    ELSE x

\* x IS NOT NULL AND TRIM(x) != ''
SqlPresent(x) == x # NULL /\ SqlTrim(x) # <<>>

\* The WHERE clauses of the four SELECTs.
InEmailPartition(r) == SqlPresent(r.email)
InPhonePartition(r) == ~SqlPresent(r.email) /\ SqlPresent(r.phone)
InLinkedInPartition(r) ==
    r.source = "linkedin" /\ ~SqlPresent(r.email) /\ ~SqlPresent(r.phone)
InPhonebookPartition(r) ==
    r.source = "phonebook" /\ ~SqlPresent(r.email) /\ ~SqlPresent(r.phone)

\* MAX over a set of strings, NULL for the empty set
MaxString(S) ==
    IF S = {} THEN NULL
    ELSE CHOOSE x \in S : \A y \in S : BinaryCompare(y, x) <= 0

\* MAX(CASE WHEN source IN sources THEN original_name END) over a group
MaxName(rows, sources) ==
    MaxString({r.original_name : r \in {x \in rows : x.source \in sources}})

\* COALESCE(x, 'N/A')
OrNA(x) == IF x = NULL THEN NA ELSE x

\* The sequence of the elements of a set of strings, ascending.
RECURSIVE Ascending(_)
Ascending(S) ==
    IF S = {} THEN <<>>
    ELSE LET least == CHOOSE x \in S : \A y \in S : BinaryCompare(x, y) <= 0
         IN  <<least>> \o Ascending(S \ {least})

TableRows(t) == Range(t)

EmailKey(r) == toLowerCase(SqlTrim(r.email))
PhoneKey(r) == SqlTrim(r.phone)

EmailGroup(t, key) == {r \in TableRows(t) : InEmailPartition(r) /\ EmailKey(r) = key}
PhoneGroup(t, key) == {r \in TableRows(t) : InPhonePartition(r) /\ PhoneKey(r) = key}

\* The row of one group; phone is the bare column of the email groups,
\* taken from a row of the group the query does not fix.
GroupRow(rows, email, phone) ==
    Candidate(OrNA(MaxName(rows, {"linkedin"})),
              OrNA(MaxName(rows, {"phonebook"})),
              OrNA(MaxName(rows, {"email_inbox", "email_sent"})),
              email, phone)

\* The rows of the third and fourth SELECT, in the order of the table.
RECURSIVE SingletonRows(_, _)
SingletonRows(t, k) ==
    IF k > Len(t) THEN <<>>
    ELSE (IF InLinkedInPartition(t[k])
          THEN <<Candidate(OrNA(t[k].original_name), NA, NA, NULL, NULL)>>
          ELSE <<>>) \o SingletonRows(t, k + 1)

RECURSIVE PhonebookSingletonRows(_, _)
PhonebookSingletonRows(t, k) ==
    IF k > Len(t) THEN <<>>
    ELSE (IF InPhonebookPartition(t[k])
          THEN <<Candidate(NA, OrNA(t[k].original_name), NA, NULL, NULL)>>
          ELSE <<>>) \o PhonebookSingletonRows(t, k + 1)

(***************************************************************************)
(* main: the four files in turn, then deduplicateContacts.  pc names the   *)
(* file being read, then "query", then the steps of the pass.              *)
(***************************************************************************)
NameAbcDef == <<"A","b","c"," ","D","e","f">>
AddressB == <<"<","B","@","x",".","i","o",">">>
NoAddress == <<"a","b","c">>
HeaderFirst == <<"F","i","r","s","t"," ","N","a","m","e">>
HeaderLast == <<"L","a","s","t"," ","N","a","m","e">>
PhoneText1 == <<"9","8","7","6","5"," ","4","3","2","1","0">>
PhoneText2 == <<"+","9","1","-","9","8","7","6","5","-","4","3","2","1","0">>
ShortPhone == <<"1","2","3","4","5">>

MailNames == {NameAD, NameAbcDef}
MailAddresses == {AddressB, NoAddress}

LinkedInRecords ==
    { <<HeaderFirst, HeaderLast, NULL, NULL>>,
      <<<<"a","b","c">>, <<"d","e","f">>, NULL, NULL>>,
      <<NameAD, <<"g","h","i">>, NULL, Email1>>,
      <<<<>>, <<>>, NULL, <<>>>> }

PhonebookRecords ==
    { <<NameAbcDef, <<NULL, NULL, NULL>>, <<PhoneText1, NULL, NULL, NULL, NULL>>>>,
      <<NameDG, <<<<>>, AddressB, NULL>>, <<NULL, NULL, NULL, NULL, NULL>>>>,
      <<NameADG, <<NULL, NULL, NULL>>, <<<<>>, PhoneText2, NULL, NULL, NULL>>>>,
      <<NameAD, <<NoAddress, Email1, NULL>>, <<ShortPhone, PhoneText1, NULL, NULL, NULL>>>> }

InitDedupe ==
    /\ table = <<>> /\ headerFound = FALSE
    /\ contacts = <<>> /\ nameIndex = <<>> /\ i = 1 /\ processed = {}
    /\ merged = <<>> /\ mergeCount = 0 /\ current = NULL
    /\ candidates = <<>> /\ pc = "email_inbox"
    /\ absorbedBy = <<>> /\ emittedFrom = <<>>
    /\ results = <<>> /\ run = 1 /\ order = <<>> /\ firstGroups = {}
    /\ NormIdle /\ SimIdle
    /\ RestIdle

passLocals == <<contacts, nameIndex, i, processed, merged, mergeCount,
                current, candidates, absorbedBy, emittedFrom, results,
                run, order, firstGroups>>

\* insertContacts: the contacts become rows of the table, in order
insertContacts(t, cs) == t \o cs

\* stmt.run of insertContacts on the contact of a row: the row is stored,
\* or the insert fails, the error is logged and the run goes on without it.
InsertRow(cs) ==
    \/ /\ table' = insertContacts(table, cs)
       /\ UNCHANGED insertFailed
    \/ /\ cs # <<>>
       /\ table' = table
       /\ insertFailed' = TRUE

untouchedByInsert == <<phoneVars, fileVars, csvFile, storeFile, exitCode, quadratic>>

\* one name and address pair of a row of a mail file
ProcessMailPair ==
    /\ pc \in {"email_inbox", "email_sent"}
    /\ Len(table) < MaxRaw
    /\ \E nm \in MailNames, address \in MailAddresses :
          InsertRow(processNameAndAddress(pc, nm, address))
    /\ UNCHANGED <<headerFound, pc, passLocals, normVars, simVars>>
    /\ UNCHANGED untouchedByInsert

\* one row of the connections export
ProcessLinkedInRow ==
    /\ pc = "linkedin"
    /\ Len(table) < MaxRaw
    /\ \E record \in LinkedInRecords :
          IF ~headerFound
          THEN /\ headerFound' = (record[1] = HeaderFirst /\ record[2] = HeaderLast)
               /\ UNCHANGED <<table, insertFailed>>
          ELSE /\ InsertRow(LinkedInContacts(record))
               /\ UNCHANGED headerFound
    /\ UNCHANGED <<pc, passLocals, normVars, simVars>>
    /\ UNCHANGED untouchedByInsert

\* one row of the phone book
ProcessPhonebookRow ==
    /\ pc = "phonebook"
    /\ Len(table) < MaxRaw
    /\ \E record \in PhonebookRecords :
          InsertRow(PhonebookContacts(record[1], record[2], record[3]))
    /\ UNCHANGED <<headerFound, pc, passLocals, normVars, simVars>>
    /\ UNCHANGED untouchedByInsert

\* the end of a file, or a file that does not exist
NextFile ==
    /\ pc \in {"email_inbox", "email_sent", "linkedin", "phonebook"}
    /\ pc' = CASE pc = "email_inbox" -> "email_sent"
               [] pc = "email_sent" -> "linkedin"
               [] pc = "linkedin" -> "phonebook"
               [] pc = "phonebook" -> "query"
    /\ headerFound' = FALSE
    /\ UNCHANGED <<table, passLocals, normVars, simVars>>
    /\ UNCHANGED restVars


\* Mutant of QueryRows: the first SELECT without its GROUP BY, one row for
\* each row of the table that has an email.
QueryRowsUngrouped(t, bare) ==
    LET emailRows == SelectSeq(t, LAMBDA x : InEmailPartition(x))
        phoneKeys == Ascending({PhoneKey(r) : r \in {x \in TableRows(t) : InPhonePartition(x)}})
    IN  [k \in 1..Len(emailRows) |->
            GroupRow({emailRows[k]}, EmailKey(emailRows[k]),
                     SqlTrim(emailRows[k].phone))]
        \o [k \in 1..Len(phoneKeys) |->
            GroupRow(PhoneGroup(t, phoneKeys[k]), NULL, phoneKeys[k])]
        \o SingletonRows(t, 1)
        \o PhonebookSingletonRows(t, 1)

\* The rows of the query for one choice of the bare phone column: the
\* groups by email and the groups by phone in ascending order of their
\* key, then the singletons in the order of the table.
QueryRows(t, bare) ==
    LET emailKeys == Ascending({EmailKey(r) : r \in {x \in TableRows(t) : InEmailPartition(x)}})
        phoneKeys == Ascending({PhoneKey(r) : r \in {x \in TableRows(t) : InPhonePartition(x)}})
    IN  [k \in 1..Len(emailKeys) |->
            GroupRow(EmailGroup(t, emailKeys[k]), emailKeys[k],
                     SqlTrim(bare[emailKeys[k]].phone))]
        \o [k \in 1..Len(phoneKeys) |->
            GroupRow(PhoneGroup(t, phoneKeys[k]), NULL, phoneKeys[k])]
        \o SingletonRows(t, 1)
        \o PhonebookSingletonRows(t, 1)

\* db.all(sql, ...): initialResults, handed to the pass
RunQuery ==
    /\ pc = "query"
    /\ LET keys == {EmailKey(r) : r \in {x \in TableRows(table) : InEmailPartition(x)}}
       IN  \E bare \in [keys -> TableRows(table)] :
              /\ \A key \in keys : bare[key] \in EmailGroup(table, key)
              /\ contacts' = QueryRows(table, bare)
    /\ nameIndex' = <<>> /\ i' = 1 /\ processed' = {}
    /\ merged' = <<>> /\ mergeCount' = 0 /\ current' = NULL
    /\ candidates' = <<>> /\ pc' = "index"
    /\ absorbedBy' = [k \in 1..Len(contacts') |-> 0] /\ emittedFrom' = <<>>
    /\ order' = [k \in 1..Len(contacts') |-> k]
    /\ UNCHANGED <<results, run, firstGroups, tableVars, normVars, simVars>>
    /\ UNCHANGED restVars

\* The cells exportToCSV and exportToSQLite write for a record: x || ''
SinkRow(contact) ==
    [linkedin_name |-> OrEmpty(contact.linkedin_name),
     phonebook_name |-> OrEmpty(contact.phonebook_name),
     email_name |-> OrEmpty(contact.email_name),
     email |-> OrEmpty(contact.email),
     phone |-> OrEmpty(contact.phone)]

SinkRows(records) == [k \in 1..Len(records) |-> SinkRow(records[k])]

\* INSERT OR REPLACE under email TEXT UNIQUE: the stored rows of the same
\* email are deleted and the row is added.
InsertOrReplace(stored, r) ==
    Append(SelectSeq(stored, LAMBDA x : x.email # r.email), r)

RECURSIVE InsertAllOrReplace(_, _)
InsertAllOrReplace(stored, rows) ==
    IF rows = <<>> THEN stored
    ELSE InsertAllOrReplace(InsertOrReplace(stored, Head(rows)), Tail(rows))

\* catch of main: a step that rejects before the sinks (an insert whose
\* finalize fails, the query) ends the run with exit code 1
Abort ==
    /\ pc \in {"email_inbox", "email_sent", "linkedin", "phonebook", "query"}
    /\ pc' = "exit" /\ exitCode' = 1
    /\ UNCHANGED <<csvFile, storeFile, insertFailed>>
    /\ UNCHANGED <<tableVars, passLocals, normVars, simVars,
                   phoneVars, fileVars, quadratic>>

\* exportToCSV on the records deduplicateContacts resolved with: the file
\* is created and every record written, or the stringifier fails after
\* some of them and main ends with exit code 1
ExportToCSV ==
    /\ pc = "done"
    /\ \/ /\ csvFile' = FileOf(SinkRows(results))
          /\ pc' = "csv"
          /\ UNCHANGED exitCode
       \/ /\ \E n \in 0..(Len(results) - 1) :
                csvFile' = FileOf(SinkRows(SubSeq(results, 1, n)))
          /\ pc' = "exit" /\ exitCode' = 1
    /\ UNCHANGED <<storeFile, insertFailed>>
    /\ UNCHANGED <<tableVars, passLocals, normVars, simVars,
                   phoneVars, fileVars, quadratic>>

\* exportToSQLite into a new store: every record inserted or replaced, or
\* the store cannot be opened and main ends with exit code 1
ExportToSQLite ==
    /\ pc = "csv"
    /\ \/ /\ storeFile' = FileOf(InsertAllOrReplace(<<>>, SinkRows(results)))
          /\ pc' = "sqlite"
          /\ UNCHANGED exitCode
       \/ /\ UNCHANGED storeFile
          /\ pc' = "exit" /\ exitCode' = 1
    /\ UNCHANGED <<csvFile, insertFailed>>
    /\ UNCHANGED <<tableVars, passLocals, normVars, simVars,
                   phoneVars, fileVars, quadratic>>

\* the statistics and close at the end of main
Finish ==
    /\ pc = "sqlite"
    /\ pc' = "exit" /\ exitCode' = 0
    /\ UNCHANGED <<csvFile, storeFile, insertFailed>>
    /\ UNCHANGED <<tableVars, passLocals, normVars, simVars,
                   phoneVars, fileVars, quadratic>>

NextDedupe ==
    \/ ProcessMailPair
    \/ ProcessLinkedInRow
    \/ ProcessPhonebookRow
    \/ NextFile
    \/ RunQuery
    \/ Next
    \/ Abort
    \/ ExportToCSV
    \/ ExportToSQLite
    \/ Finish

SpecDedupe == InitDedupe /\ [][NextDedupe]_vars

(***************************************************************************)
(* processLinkedInCSV on a file of up to MaxRows records: rows of          *)
(* preamble, the header, data rows with and without a name.  producedBy    *)
(* keeps, for every record read, the contacts pushed while it was read.    *)
(***************************************************************************)
LinkedInFileRecords ==
    LinkedInRecords
    \cup { <<HeaderFirst, <<"d","e","f">>, NULL, NULL>>,
           <<<<" ">>, NULL, NULL, NULL>> }

InitLinkedIn ==
    /\ file \in SeqsUpTo(LinkedInFileRecords, MaxRows)
    /\ row = 1 /\ parsed = <<>> /\ producedBy = <<>>
    /\ headerFound = FALSE /\ table = <<>>
    /\ NormIdle /\ SimIdle /\ PassIdle
    /\ PhoneIdle /\ SinkIdle /\ quadratic = NotCalled

\* Mutant of ReadLinkedInRecord: every record is taken as a data row.
ReadLinkedInRecordAsData ==
    /\ row <= Len(file)
    /\ parsed' = parsed \o LinkedInContacts(file[row])
    /\ producedBy' = Append(producedBy, LinkedInContacts(file[row]))
    /\ row' = row + 1
    /\ UNCHANGED <<file, headerFound, table, normVars, simVars, passVars,
                   phoneVars, sinkVars, quadratic>>

\* one record of the loop of the readable handler
ReadLinkedInRecord ==
    /\ row <= Len(file)
    /\ IF ~headerFound
       THEN /\ headerFound' = (file[row][1] = HeaderFirst /\ file[row][2] = HeaderLast)
            /\ UNCHANGED parsed
            /\ producedBy' = Append(producedBy, <<>>)
       ELSE /\ parsed' = parsed \o LinkedInContacts(file[row])
            /\ producedBy' = Append(producedBy, LinkedInContacts(file[row]))
            /\ UNCHANGED headerFound
    /\ row' = row + 1
    /\ UNCHANGED <<file, table, normVars, simVars, passVars,
                   phoneVars, sinkVars, quadratic>>

NextLinkedIn == ReadLinkedInRecord

SpecLinkedIn == InitLinkedIn /\ [][NextLinkedIn]_vars

(***************************************************************************)
(* deduplicateContacts on the batch of the end-to-end scenario: the table  *)
(* as the adapters and insertContacts leave it for a mail row of Jane Doe  *)
(* (in the inbox, in the sent mail or in neither), her row of the          *)
(* connections export (or none) and a row of the phone book (Jane D., Jane *)
(* Doe or none).                                                           *)
(***************************************************************************)
JaneDoe == <<"J","a","n","e"," ","D","o","e">>
JaneD == <<"J","a","n","e"," ","D",".">>
JaneAddress == <<"j","a","n","e","@","x",".","c","o","m">>
JanePhoneText == <<"9","8","7","6","5"," ","4","3","2","1","0">>
JanePhone == <<"9","8","7","6","5","4","3","2","1","0">>

ScenarioTable(mailSource, withLinkedIn, phonebookName) ==
    (IF mailSource = "none" THEN <<>>
     ELSE processNameAndAddress(mailSource, JaneDoe, JaneAddress))
    \o (IF withLinkedIn
         THEN LinkedInContacts(<<<<"J","a","n","e">>, <<"D","o","e">>, NULL, JaneAddress>>)
         ELSE <<>>)
    \o (IF phonebookName = NULL THEN <<>>
         ELSE PhonebookContacts(phonebookName, <<NULL, NULL, NULL>>,
                                <<JanePhoneText, NULL, NULL, NULL, NULL>>))

InitScenario ==
    /\ \E mailSource \in {"none", "email_inbox", "email_sent"},
          withLinkedIn \in BOOLEAN,
          phonebookName \in {NULL, JaneD, JaneDoe} :
          table = insertContacts(<<>>, ScenarioTable(mailSource, withLinkedIn, phonebookName))
    /\ headerFound = FALSE
    /\ contacts = <<>> /\ nameIndex = <<>> /\ i = 1 /\ processed = {}
    /\ merged = <<>> /\ mergeCount = 0 /\ current = NULL
    /\ candidates = <<>> /\ pc = "query"
    /\ absorbedBy = <<>> /\ emittedFrom = <<>>
    /\ results = <<>> /\ run = 1 /\ order = <<>> /\ firstGroups = {}
    /\ NormIdle /\ SimIdle
    /\ RestIdle

NextScenario == RunQuery \/ Next

SpecScenario == InitScenario /\ [][NextScenario]_vars

(***************************************************************************)
(* deduplicateContacts on tables with several emails, and the pass on the  *)
(* rows of the query in another order.                                     *)
(***************************************************************************)
AddressA == <<"A","@","x",".","i","o">>

\* The contacts the adapters make of six rows: two mail rows with one
\* email, a mail row and a phone-book row with another, a LinkedIn row
\* without email and a phone-book row with a phone only.
EmailsPool ==
    processNameAndAddress("email_inbox", NameAD, AddressA)
    \o processNameAndAddress("email_sent", NameADG, AddressA)
    \o processNameAndAddress("email_inbox", NameAD, AddressB)
    \o PhonebookContacts(NameADG, <<AddressB, NULL, NULL>>,
                         <<PhoneText2, NULL, NULL, NULL, NULL>>)
    \o LinkedInContacts(<<<<"a","b","c">>, <<"d","e","f">>, NULL, NULL>>)
    \o PhonebookContacts(NameAD, <<NULL, NULL, NULL>>,
                         <<PhoneText1, NULL, NULL, NULL, NULL>>)

InitEmails ==
    /\ \E ks \in SeqsUpTo(1..Len(EmailsPool), MaxContacts) :
          /\ \A k \in 1..(Len(ks) - 1) : ks[k] <= ks[k + 1]
          /\ table = insertContacts(<<>>, [k \in 1..Len(ks) |-> EmailsPool[ks[k]]])
    /\ headerFound = FALSE
    /\ contacts = <<>> /\ nameIndex = <<>> /\ i = 1 /\ processed = {}
    /\ merged = <<>> /\ mergeCount = 0 /\ current = NULL
    /\ candidates = <<>> /\ pc = "query"
    /\ absorbedBy = <<>> /\ emittedFrom = <<>>
    /\ results = <<>> /\ run = 1 /\ order = <<>> /\ firstGroups = {}
    /\ NormIdle /\ SimIdle
    /\ RestIdle

NextEmails == RunQuery \/ NextOrder

SpecEmails == InitEmails /\ [][NextEmails]_vars

(***************************************************************************)
(* Claims about the normalizers and the metric.                            *)
(***************************************************************************)

\* C6: normalizeName is idempotent: a second call on the result of a first
\* call returns that result, for every string, the empty string and strings
\* without any ASCII letter included.
C6_NormalizeIdempotent ==
    renormalized # UNSET => renormalized = normalized

\* The maximal runs of non-whitespace characters of s, as <<first, last>>.
TokenRuns(s) ==
    {r \in (1..Len(s)) \X (1..Len(s)) :
        /\ r[1] <= r[2]
        /\ \A k \in r[1]..r[2] : ~IsSpace(s[k])
        /\ (r[1] = 1 \/ IsSpace(s[r[1] - 1]))
        /\ (r[2] = Len(s) \/ IsSpace(s[r[2] + 1]))}

LongRuns(s) == {r \in TokenRuns(s) : r[2] - r[1] + 1 > 2}

\* (max_len - edit_distance) / max_len >= 0.8, on two tokens
CloseTokens(a, b) ==
    LET maxLen == IF Len(a) >= Len(b) THEN Len(a) ELSE Len(b)
    IN  10 * (maxLen - levenshteinDistance(a, b)) >= 8 * maxLen

\* The value the Dice-style rule gives for A, B and t (in hundredths).
DiceSimilar(A, B, t) ==
    IF A = B /\ A # NULL /\ Len(A) > 0 THEN TRUE
    ELSE IF A = NULL \/ B = NULL THEN FALSE
    ELSE LET TA == LongRuns(A)
             TB == LongRuns(B)
             m == Cardinality({ra \in TA : \E rb \in TB :
                      CloseTokens(SubSeq(A, ra[1], ra[2]), SubSeq(B, rb[1], rb[2]))})
         IN  IF TA = {} \/ TB = {} THEN FALSE
             ELSE 100 * 2 * m >= t * (Cardinality(TA) + Cardinality(TB))

\* C7: areNamesSimilar(A, B, t) is true for identical non-empty names;
\* otherwise false when A or B has no token longer than 2 characters, and
\* else true exactly when 2*m/(|TA|+|TB|) >= t, m being the number of tokens
\* of A that are within 0.8 normalized Levenshtein similarity of some token
\* of B, each token of A counted once.
C7_DiceRule ==
    simDone => (similar <=> DiceSimilar(name1, name2, threshold))

\* A call on two different names, one of two tokens that are both close to
\* the single token of the other, which the metric accepts at 0.6 only
\* because each token counts once.
C7_Witness ==
    /\ simDone /\ similar /\ threshold = 60
    /\ name1 = <<"a","b","c","d","e">>
    /\ name2 = <<"a","b","c","d","e"," ","a","b","c","d","x">>

TestPair ==
    name1 = normalizeName(TestName1) /\ name2 = normalizeName(TestName2)

\* C8 as stated: for "abhijit hazari" and "cg abhijit hazari" the metric is
\* true at threshold 0.7 and false at threshold 0.95.
C8_TestPairAsStated ==
    (simDone /\ TestPair) =>
        /\ (threshold = 70 => similar)
        /\ (threshold = 95 => ~similar)

\* C8 amended: for "abhijit hazari" and "cg abhijit hazari" the metric is
\* true at threshold 0.7 and at every higher threshold up to 1.0, 0.95
\* included: "cg" has two characters and is no significant token, so both
\* names have two significant tokens, both match, and the coefficient is
\* 2*2/(2+2) = 1.
C8_TestPairAlwaysSimilar ==
    (simDone /\ TestPair) =>
        /\ similar
        /\ Len(SignificantWords(name2)) = 2
        /\ AtLeast(<<2 * CountMatchingWords(SignificantWords(name1),
                                            SignificantWords(name2)),
                     Len(SignificantWords(name1)) + Len(SignificantWords(name2))>>,
                   100)

C8_Witness == simDone /\ TestPair /\ threshold = 95 /\ similar

(***************************************************************************)
(* Claims about the name-similarity pass and the ranking.                  *)
(***************************************************************************)
Absorbed == {k \in 1..Len(contacts) : absorbedBy[k] # 0}
Emitted == Range(emittedFrom)
PassOver == pc \in {"merged", "done"}

\* C1: emitted records plus merges equals input candidates, at the end of
\* the pass and, counting the candidates not yet reached and the record in
\* hand, at every step; every candidate is emitted once or absorbed once,
\* never both and never twice.
C1_Conservation ==
    /\ pc \in {"outer", "inner", "merged", "done"} =>
          Len(merged) + mergeCount
            + Cardinality((1..Len(contacts)) \ processed)
            + (IF pc = "inner" THEN 1 ELSE 0) = Len(contacts)
    /\ PassOver =>
          /\ Len(merged) + mergeCount = Len(contacts)
          /\ Emitted \cup Absorbed = 1..Len(contacts)
          /\ Emitted \cap Absorbed = {}
          /\ Cardinality(Emitted) = Len(emittedFrom)
          /\ Len(emittedFrom) = Len(merged)
          /\ Cardinality(Absorbed) = mergeCount

C1_Witness == pc = "done" /\ mergeCount >= 1 /\ Len(merged) >= 2

\* The record a candidate ended up in.
RootOf(k) == IF absorbedBy[k] # 0 THEN absorbedBy[k] ELSE k

KeysDiffer(x, y) == x # NULL /\ y # NULL /\ x # y

\* C2: no two candidates folded into the same record carry two different
\* non-null emails or two different non-null phones, the absorber included
\* and also after the absorber's email or phone was backfilled.
C2_NoConflictingKeys ==
    \A a, b \in 1..Len(contacts) :
        (pc # "index" /\ RootOf(a) = RootOf(b)) =>
            /\ ~KeysDiffer(contacts[a].email, contacts[b].email)
            /\ ~KeysDiffer(contacts[a].phone, contacts[b].phone)

\* An absorber without email took its email from an absorbed candidate, and
\* a later candidate of a matching name but another email stayed out.
C2_Witness ==
    /\ pc = "done"
    /\ \E a, j, k \in 1..Len(contacts) :
          /\ absorbedBy[j] = a /\ contacts[a].email = NULL
          /\ contacts[j].email # NULL
          /\ j < k /\ KeysDiffer(contacts[j].email, contacts[k].email)
          /\ NamesMatch(normalizeName(getNameForComparison(contacts[a])), contacts[k])
          /\ absorbedBy[k] = 0

\* C3: while candidates are folded into the current record, a name slot of
\* the current record that is populated keeps its value: only N/A slots are
\* filled.
C3_FirstWriterWins ==
    [][(pc = "inner" /\ pc' = "inner") =>
          \A f \in NameFields : current[f] # NA => current'[f] = current[f]]_vars

\* C5: every absorbed candidate has a larger input index than its absorber,
\* records are emitted in increasing order of the index they were copied
\* from, and the record in hand is the earliest candidate that was neither
\* emitted nor absorbed before.
C5_EarliestAbsorbs ==
    /\ \A j \in 1..Len(absorbedBy) : absorbedBy[j] # 0 => absorbedBy[j] < j
    /\ \A k, l \in 1..Len(emittedFrom) : k < l => emittedFrom[k] < emittedFrom[l]
    /\ \A e \in Emitted : absorbedBy[e] = 0
    /\ pc = "inner" =>
          /\ absorbedBy[i] = 0 /\ i \notin Emitted
          /\ \A k \in 1..(i - 1) : k \in Emitted \/ absorbedBy[k] # 0

C5_Witness ==
    /\ pc = "done" /\ Len(emittedFrom) >= 2
    /\ \E j \in 1..Len(contacts) : absorbedBy[j] # 0 /\ absorbedBy[j] < j - 1

\* The bag of the records of a sequence.
CountIn(seq, r) == Cardinality({k \in 1..Len(seq) : seq[k] = r})

\* The three classes of the ranking.
RankClass(r) ==
    CASE r.linkedin_name # NA -> 1
      [] r.linkedin_name = NA /\ r.phonebook_name # NA -> 2
      [] r.linkedin_name = NA /\ r.phonebook_name = NA -> 3

RankName(r) ==
    CASE r.linkedin_name # NA -> r.linkedin_name
      [] r.linkedin_name = NA /\ r.phonebook_name # NA -> r.phonebook_name
      [] r.linkedin_name = NA /\ r.phonebook_name = NA -> r.email_name

\* C9: the returned sequence holds the merged records, those with a
\* linkedin name first, then those with a phone-book name and no linkedin
\* name, then the others; within a class the names used for the ranking
\* ascend.
C9_Ranking ==
    pc = "done" =>
        /\ Len(results) = Len(merged)
        /\ \A k \in 1..Len(merged) : CountIn(results, merged[k]) = CountIn(merged, merged[k])
        /\ \A k, l \in 1..Len(results) : k < l =>
              /\ RankClass(results[k]) <= RankClass(results[l])
              /\ RankClass(results[k]) = RankClass(results[l]) =>
                    localeCompare(RankName(results[k]), RankName(results[l])) <= 0

\* Three records of the three classes that the sort had to reverse.
C9_Witness ==
    /\ pc = "done" /\ Len(results) = 3
    /\ RankClass(merged[1]) = 3 /\ RankClass(merged[2]) = 2 /\ RankClass(merged[3]) = 1
    /\ RankClass(results[1]) = 1

(***************************************************************************)
(* Claims about the order of the candidates.                               *)
(***************************************************************************)
SharesWord(a, b) == Range(IndexWords(a)) \cap Range(IndexWords(b)) # {}

\* The pass would fold one of x and y into the other when it meets them
\* alone: they share a significant word, their comparison names are similar
\* at 0.7 and their keys do not conflict.
WouldMerge(x, y) ==
    /\ SharesWord(x, y)
    /\ areNamesSimilar(normalizeName(getNameForComparison(x)),
                       normalizeName(getNameForComparison(y)),
                       MergeThreshold)
    /\ ~Conflicting(x, y)

\* The same without the shared word: the test of the pass that scans all.
WouldMergeByName(x, y) ==
    /\ Truthy(getNameForComparison(x)) /\ Truthy(getNameForComparison(y))
    /\ areNamesSimilar(normalizeName(getNameForComparison(x)),
                       normalizeName(getNameForComparison(y)),
                       MergeThreshold)
    /\ ~Conflicting(x, y)

\* The candidates at a and b are the same candidate or would merge.
MergeRelated(a, b) == a = b \/ WouldMerge(contacts[a], contacts[b])

\* The relation on the candidates in hand, as a set of pairs of indices.
MergeRelation ==
    {p \in {<<a, b>> : a \in 1..Len(contacts), b \in 1..Len(contacts)} :
        MergeRelated(p[1], p[2])}

\* rel is symmetric and transitive.
IsEquivalence(rel) ==
    \A p \in rel :
        /\ <<p[2], p[1]>> \in rel
        /\ \A q \in rel : q[1] = p[2] => <<p[1], q[2]>> \in rel

MergeRelationIsEquivalence == IsEquivalence(MergeRelation)

PartitionTests(r) ==
    <<InEmailPartition(r), InPhonePartition(r),
      InLinkedInPartition(r), InPhonebookPartition(r)>>

RowsIn(p) == {k \in 1..Len(table) : PartitionTests(table[k])[p]}

\* C10: every row the adapters put into the table satisfies the WHERE
\* clause of exactly one of the four SELECTs, so the rows of the four
\* partitions add up to the rows of the table.
C10_FourPartitions ==
    /\ \A k \in 1..Len(table) :
          Cardinality({p \in 1..4 : PartitionTests(table[k])[p]}) = 1
    /\ Cardinality(RowsIn(1)) + Cardinality(RowsIn(2))
         + Cardinality(RowsIn(3)) + Cardinality(RowsIn(4)) = Len(table)

\* A table with a row of a mail file, a row of the connections export
\* without email and a row of the phone book with a phone only, aggregated.
C10_Witness ==
    /\ pc = "done" /\ Len(table) = 3
    /\ table[1].source = "email_sent" /\ RowsIn(1) = {1}
    /\ RowsIn(3) = {2} /\ RowsIn(2) = {3}

(***************************************************************************)
(* Claims about extractPhone.                                              *)
(***************************************************************************)
\* The digits of a phone cell, in order.
RECURSIVE DigitsOf(_)
DigitsOf(text) ==
    IF text = NULL \/ text = <<>> THEN <<>>
    ELSE IF Head(text) \in {"0","1","2","3","4","5","6","7","8","9"}
         THEN <<Head(text)>> \o DigitsOf(Tail(text))
         ELSE DigitsOf(Tail(text))

\* C11: extractPhone returns null when the cell holds fewer than 10
\* digits, the first 12 digits when the digits start with 91 and are at
\* least 12, and the last 10 digits otherwise; so a result that is not null
\* is 10 or 12 digits and nothing else, and one of 12 digits starts with 91.
C11_ExtractPhone ==
    phoneResult # UNSET =>
        LET d == DigitsOf(phoneText)
            n == Len(d)
        IN  /\ n < 10 => phoneResult = NULL
            /\ (n >= 12 /\ d[1] = "9" /\ d[2] = "1") =>
                   phoneResult = [k \in 1..12 |-> d[k]]
            /\ (n >= 10 /\ ~(n >= 12 /\ d[1] = "9" /\ d[2] = "1")) =>
                   phoneResult = [k \in 1..10 |-> d[n - 10 + k]]
            /\ phoneResult # NULL =>
                   /\ DigitsOf(phoneResult) = phoneResult
                   /\ Len(phoneResult) \in {10, 12}
                   /\ Len(phoneResult) = 12 =>
                          phoneResult[1] = "9" /\ phoneResult[2] = "1"

\* A cell of 13 digits behind a plus sign, cut to the country code and the
\* ten digits after it.
C11_Witness ==
    /\ phoneResult # UNSET /\ phoneResult # NULL
    /\ Len(phoneResult) = 12
    /\ Len(DigitsOf(phoneText)) = 13 /\ phoneText[1] = "+"

(***************************************************************************)
(* Claims about the sinks and the end of main.                             *)
(***************************************************************************)
\* C12: no row of the flat file holds the text N/A in one of its three
\* name columns: a name field that is N/A is written as the empty string.
C12_NoSentinelInFlatFile ==
    csvFile # NoFile =>
        \A k \in 1..Len(csvFile[1]) :
            /\ csvFile[1][k].linkedin_name # NA
            /\ csvFile[1][k].phonebook_name # NA
            /\ csvFile[1][k].email_name # NA

\* C13: the store, empty before, holds one row for every output record,
\* records without email included.
C13_OneStoredRowPerRecord ==
    storeFile # NoFile => Len(storeFile[1]) = Len(results)

\* C14: a run in which an insert into the table, a step before the sinks or
\* a sink failed has emitted neither the flat file nor the store.
C14_FailureLeavesNoOutput ==
    (exitCode = 1 \/ insertFailed) => (csvFile = NoFile /\ storeFile = NoFile)

(***************************************************************************)
(* Claims about the end-to-end scenario.                                   *)
(***************************************************************************)
\* The batch of the scenario: the mail row, the row of the connections
\* export and the row of the phone book of Jane D.
ScenarioBatch ==
    \E mailSource \in {"email_inbox", "email_sent"} :
        table = ScenarioTable(mailSource, TRUE, JaneD)

\* C15 as stated: the batch of the scenario comes out as one record.
C15_ScenarioOneRecord ==
    (ScenarioBatch /\ pc = "done") => Len(results) = 1

\* C15 amended: the batch of the scenario comes out as two records, the
\* one merged record of the two rows that share jane@x.com and the record
\* of the phone book row, which stays apart: "jane d" has one significant
\* word against the two of "jane doe", 2 * 1 / (2 + 1) is below 0.7.
C15_ScenarioTwoRecords ==
    (ScenarioBatch /\ pc = "done") =>
        results = << Candidate(JaneDoe, NA, JaneDoe, JaneAddress, NULL),
                     Candidate(NA, JaneD, NA, NULL, JanePhone) >>

C15_Witness ==
    /\ ScenarioBatch /\ pc = "done"
    /\ Len(contacts) = 2 /\ mergeCount = 0 /\ Len(results) = 2

(***************************************************************************)
(* Claims about the adapter of the connections export.                     *)
(***************************************************************************)
IsHeaderRow(record) ==
    record[1] = <<"F","i","r","s","t"," ","N","a","m","e">>
    /\ record[2] = <<"L","a","s","t"," ","N","a","m","e">>

\* The index of the first header row of the file, 0 when it has none.
FirstHeader ==
    IF \E k \in 1..Len(file) : IsHeaderRow(file[k])
    THEN CHOOSE k \in 1..Len(file) :
            IsHeaderRow(file[k]) /\ \A l \in 1..(k - 1) : ~IsHeaderRow(file[l])
    ELSE 0

\* The first and the last name of the record hold something to print.
HasName(record) ==
    \E c \in {1, 2} :
        /\ record[c] # NULL
        /\ \E k \in 1..Len(record[c]) : record[c][k] \notin {" ", "\t"}

\* C16: no contact is pushed for a record at or before the first header
\* row, exactly one contact of source linkedin for every later record with
\* a name, and none at all for a file without a header row.
C16_DataRowsAfterHeader ==
    /\ \A k \in 1..Len(producedBy) :
          /\ (FirstHeader = 0 \/ k <= FirstHeader) => producedBy[k] = <<>>
          /\ (FirstHeader # 0 /\ k > FirstHeader /\ HasName(file[k])) =>
                 /\ Len(producedBy[k]) = 1
                 /\ producedBy[k][1].source = "linkedin"
    /\ FirstHeader = 0 => parsed = <<>>
    /\ Len(parsed) = Cardinality({k \in 1..Len(producedBy) : producedBy[k] # <<>>})

\* A file read to its end: a row with a name before the header, the header,
\* and a data row with a name behind it.
C16_Witness ==
    /\ Len(file) = 3 /\ row = 4
    /\ HasName(file[1]) /\ ~IsHeaderRow(file[1])
    /\ FirstHeader = 2
    /\ Len(producedBy[3]) = 1 /\ Len(parsed) = 1

(***************************************************************************)
(* Claims about the candidates with an email or a phone.                   *)
(***************************************************************************)
HasKey(contact) == contact.email # NULL \/ contact.phone # NULL

\* C17: a candidate of the aggregation that has an email or a phone is
\* never absorbed, never absorbs, and is emitted as the query returned it.
C17_KeyedCandidatesUntouched ==
    \A k \in 1..Len(absorbedBy) :
        HasKey(contacts[k]) =>
            /\ absorbedBy[k] = 0
            /\ \A j \in 1..Len(absorbedBy) : absorbedBy[j] # k
            /\ \A e \in 1..Len(emittedFrom) :
                   emittedFrom[e] = k => merged[e] = contacts[k]

(***************************************************************************)
(* Claims about the two passes.                                            *)
(***************************************************************************)
\* The candidates the pass that scans everything would test against the
\* record taken at index k: not yet processed, no conflicting email or
\* phone, the comparison name similar at 0.7.
SimilarUnprocessed(k) ==
    {j \in 1..Len(contacts) :
        /\ j # k /\ j \notin processed
        /\ WouldMergeByName(contacts[k], contacts[j])}

\* C18: the focused pass returns the records mergeSimilarContacts returns
\* for the same candidates, and when a record is taken every unprocessed
\* candidate of a similar name and without conflicting email or phone is in
\* the candidate set of the posting lists.
C18_FocusedEqualsQuadratic ==
    /\ quadratic # NotCalled => merged = quadratic[1]
    /\ (pc = "outer" /\ i <= Len(contacts) /\ i \notin processed) =>
          SimilarUnprocessed(i)
            \subseteq Range(CandidateList(nameIndex, contacts[i], i, processed \cup {i}))

(***************************************************************************)
(* Claims about the argument order of areNamesSimilar.                     *)
(***************************************************************************)
\* C19: areNamesSimilar gives the same answer with its two names exchanged,
\* at every threshold, also for names with repeated words and names with
\* different numbers of words.
C19_Symmetric ==
    simDone => similar = areNamesSimilar(name2, name1, threshold)

(***************************************************************************)
(* Claims about the emails of candidates and records.                      *)
(***************************************************************************)
\* No two records of the sequence carry the same non-null email.
DistinctEmails(records) ==
    \A a, b \in 1..Len(records) :
        (a # b /\ records[a].email # NULL) => records[a].email # records[b].email

\* C20: the candidates the aggregation query returns carry pairwise
\* distinct non-null emails, and so do the records the pass returns and the
\* sorted records, in whatever order the pass takes the candidates, also
\* when a record takes its email from a candidate it absorbs.
C20_UniqueEmails ==
    /\ DistinctEmails(contacts)
    /\ DistinctEmails(merged)
    /\ DistinctEmails(results)

\* The pass is over, two records carry different emails, and one of them
\* was taken without an email and got it from a candidate it absorbed.
C20_Witness ==
    /\ pc = "done"
    /\ \E a, b \in 1..Len(results) :
          /\ results[a].email # NULL /\ results[b].email # NULL
          /\ results[a].email # results[b].email
    /\ \E k \in 1..Len(merged) :
          /\ contacts[emittedFrom[k]].email = NULL
          /\ merged[k].email # NULL

====
